---------------------------- MODULE Spec2Model ----------------------------
(***************************************************************************)
(* A model of cppref (src/cppref/index.py, src/cppref/cli.py): the symbol  *)
(* index extractor, the href normalizer, the lookup table, the fuzzy       *)
(* matcher, the batch and the interactive resolver, the index file and     *)
(* its rebuild.                                                            *)
(*                                                                         *)
(* Python strings are modelled as sequences of one-character strings, so   *)
(* that split, strip, startswith, normpath and the comparisons of the      *)
(* source are computed character by character.  Python's None is the       *)
(* value None below, which is no character sequence.                       *)
(***************************************************************************)
EXTENDS Integers, Sequences, FiniteSets, TLC

(***************************************************************************)
(* Strings                                                                 *)
(***************************************************************************)

\* Python's None: a one-element sequence whose element is not a character.
None == <<"None">>

\* The characters of the model in code point order (str comparison, sorted()).
Ascii ==
    <<" ", "#", "(", ")", ".", "/", "2", ":", "<", ">", "?", "A", "B", "O",
      "S", "V", "X", "Y", "_", "a", "b", "c", "d", "e", "h", "i", "k", "l",
      "m", "n", "o", "p", "q", "r", "s", "t", "v", "w", "x", "y", "z">>

Ord(c) == CHOOSE i \in 1..Len(Ascii) : Ascii[i] = c

\* str.lower() on one character of the model's alphabet.
LowerChar(c) ==
    CASE c = "A" -> "a"
      [] c = "B" -> "b"
      [] c = "O" -> "o"
      [] c = "S" -> "s"
      [] c = "Y" -> "y"
      [] c = "V" -> "v"
      [] c = "X" -> "x"
      [] OTHER -> c

Lower(s) == [i \in 1..Len(s) |-> LowerChar(s[i])]

\* The characters str.strip() removes.
Whitespace == {" "}

\* s[i:] and s[:i] with Python's 0-based indices.
From(s, i) == SubSeq(s, i + 1, Len(s))

Upto(s, i) == SubSeq(s, 1, i)

StartsWith(s, p) == Len(s) >= Len(p) /\ SubSeq(s, 1, Len(p)) = p

\* s.find(t, start): the least 0-based index >= start where t occurs, or -1.
Find(s, t, start) ==
    LET hits == {i \in start..(Len(s) - Len(t)) : SubSeq(s, i + 1, i + Len(t)) = t}
    IN  IF hits = {} THEN -1 ELSE CHOOSE i \in hits : \A j \in hits : i <= j

\* t in s
Contains(s, t) == Find(s, t, 0) # -1

RECURSIVE LStripSet(_, _)
LStripSet(s, cs) ==
    IF s # <<>> /\ Head(s) \in cs THEN LStripSet(Tail(s), cs) ELSE s

RECURSIVE RStripSet(_, _)
RStripSet(s, cs) ==
    IF s # <<>> /\ s[Len(s)] \in cs THEN RStripSet(Upto(s, Len(s) - 1), cs) ELSE s

\* str.strip()
Strip(s) == RStripSet(LStripSet(s, Whitespace), Whitespace)

\* s.split(sep, 1)[0] for a one-character sep
BeforeFirst(s, sep) ==
    LET i == Find(s, <<sep>>, 0) IN IF i = -1 THEN s ELSE Upto(s, i)

\* s.split(sep) for a one-character sep: the list of components.
RECURSIVE Split(_, _)
Split(s, sep) ==
    LET i == Find(s, <<sep>>, 0)
    IN  IF i = -1 THEN <<s>> ELSE <<Upto(s, i)>> \o Split(From(s, i + 1), sep)

\* sep.join(parts)
RECURSIVE Join(_, _)
Join(parts, sep) ==
    IF parts = <<>> THEN <<>>
    ELSE IF Len(parts) = 1 THEN parts[1]
    ELSE parts[1] \o sep \o Join(Tail(parts), sep)

\* s.replace(old, new): left to right, non-overlapping.
RECURSIVE Replace(_, _, _)
Replace(s, old, new) ==
    LET i == Find(s, old, 0)
    IN  IF i = -1 THEN s
        ELSE Upto(s, i) \o new \o Replace(From(s, i + Len(old)), old, new)

\* s < t for Python strings: lexicographic by code point.
RECURSIVE StrLess(_, _)
StrLess(s, t) ==
    IF t = <<>> THEN FALSE
    ELSE IF s = <<>> THEN TRUE
    ELSE IF Head(s) # Head(t) THEN Ord(Head(s)) < Ord(Head(t))
    ELSE StrLess(Tail(s), Tail(t))

(***************************************************************************)
(* index.py: constants                                                     *)
(***************************************************************************)

\* BASE_URL = "https://cppreference.com", abbreviated to "https://h".
BASE_URL == <<"h", "t", "t", "p", "s", ":", "/", "/", "h">>

\* SYMBOL_INDEX_PATH = "w/cpp/symbol_index.html"
SYMBOL_INDEX_PATH ==
    <<"w", "/", "c", "p", "p", "/", "s", "y", "m", "b", "o", "l", "_",
      "i", "n", "d", "e", "x", ".", "h", "t", "m", "l">>

\* The literal "w/cpp/symbol_index" of handle_endtag.
SelfPrefix == Upto(SYMBOL_INDEX_PATH, 18)

\* The documentation root "/w/cpp/" of _normalize_href.
DocRoot == <<"/", "w", "/", "c", "p", "p", "/">>

Mailto == <<"m", "a", "i", "l", "t", "o", ":">>

Http == <<"h", "t", "t", "p", ":", "/", "/">>

Https == <<"h", "t", "t", "p", "s", ":", "/", "/">>

Mwiki == <<"m", "w", "i", "k", "i", "/">>

(***************************************************************************)
(* index.py: _normalize_href                                               *)
(***************************************************************************)

\* urlsplit(href).path for an href that starts with http:// or https://:
\* the netloc runs from after "//" to the first "/", "?" or "#"; the path
\* is what follows, up to the first "?" (the fragment is already gone).
UrlsplitPath(href) ==
    LET rest  == From(href, Find(href, <<"/", "/">>, 0) + 2)
        stops == {i \in 0..(Len(rest) - 1) : rest[i + 1] \in {"/", "?", "#"}}
        cut   == IF stops = {} THEN Len(rest)
                 ELSE CHOOSE i \in stops : \A j \in stops : i <= j
    IN  BeforeFirst(From(rest, cut), "?")

\* The loop of posixpath.normpath over the components.
RECURSIVE NormComps(_, _, _)
NormComps(comps, new, rooted) ==
    IF comps = <<>> THEN new
    ELSE LET comp == Head(comps)
         IN  IF comp = <<>> \/ comp = <<".">>
               THEN NormComps(Tail(comps), new, rooted)
             ELSE IF comp # <<".", ".">>
                     \/ (~rooted /\ new = <<>>)
                     \/ (new # <<>> /\ new[Len(new)] = <<".", ".">>)
               THEN NormComps(Tail(comps), Append(new, comp), rooted)
             ELSE IF new # <<>>
               THEN NormComps(Tail(comps), Upto(new, Len(new) - 1), rooted)
             ELSE NormComps(Tail(comps), new, rooted)

\* posixpath.normpath
Normpath(path) ==
    IF path = <<>> THEN <<".">>
    ELSE LET slashes == IF ~StartsWith(path, <<"/">>) THEN 0
                        ELSE IF StartsWith(path, <<"/", "/">>)
                                /\ ~StartsWith(path, <<"/", "/", "/">>) THEN 2
                        ELSE 1
             comps   == NormComps(Split(path, "/"), <<>>, slashes > 0)
             joined  == [i \in 1..slashes |-> "/"] \o Join(comps, <<"/">>)
         IN  IF joined = <<>> THEN <<".">> ELSE joined

\* posixpath.join("/w/cpp/", path) for a path that does not start with "/".
JoinRoot(path) == DocRoot \o path

\* return normalized.lstrip("/")
NormalizedResult(normalized) == LStripSet(normalized, {"/"})

\* if path.startswith("/"): normpath(path) else: normpath(join("/w/cpp/", path))
ResolvePath(path) ==
    IF StartsWith(path, <<"/">>) THEN Normpath(path)
    ELSE Normpath(JoinRoot(path))

\* _normalize_href(href): a path, or None
NormalizeHref(h) ==
    LET href == Strip(BeforeFirst(h, "#"))
    IN  IF href = <<>> THEN None
        ELSE IF StartsWith(href, Mailto) THEN None
        ELSE LET path == IF StartsWith(href, Http) \/ StartsWith(href, Https)
                         THEN UrlsplitPath(href) ELSE href
             IN  IF StartsWith(path, Mwiki) THEN None
                 ELSE LET normalized == ResolvePath(path)
                      IN  IF ~StartsWith(normalized, DocRoot) THEN None
                          ELSE NormalizedResult(normalized)


(***************************************************************************)
(* State                                                                   *)
(***************************************************************************)

VARIABLES
    \* the normalizer applied to an href, and to its own result
    n_href, n_once, n_twice, n_pc,
    \* _SymbolIndexParser's fields (index.py:32-38)
    current_href, current_text_parts, pending_symbol, pending_label_base,
    pending_url, pending_tail_parts, entries,
    \* parse_symbol_index: where it is, what it returned, the tokens fed,
    \* the last token handled, and the markup still to feed (SpecAnchor)
    p_pc, p_result, p_ntok, p_last, p_script,
    \* build_lookup: the entries given, the loop index, the dict built
    l_entries, l_i, lookup, l_pc,
    \* _filter_entries: the (symbol, entry) pairs and the query given, the
    \* loop index, the list scored, and the list returned
    f_entries, f_query, f_i, scored, f_result, f_pc,
    \* run_search_non_interactive: the argument and --print, whether stdin
    \* and stdout are terminals, the lookup table, the symbol looked up, the
    \* suggestion offered, the options under selection and the call of
    \* choose_url they belong to, where the run is, the URLs handed out,
    \* the exception that ended the run, and the lines and keys read
    b_query, print_only, b_tty, b_lookup, b_symbol, b_suggestion, b_options,
    b_via, b_pc, b_out, b_error, b_reads, b_last,
    \* run_search_interactive: --print, whether stdin and stdout are
    \* terminals, the entries loaded, where the run is, and at a key read of
    \* a selection loop: its query, its cursor, the height getmaxyx gave,
    \* the options under selection (option level); the URLs handed out, the
    \* exception that ended the run, the keys read, and the last key with
    \* the number of rows that were visible when it was read
    s_print_only, s_tty, s_entries, s_pc, s_query, selected, s_height,
    s_symbol, s_options, s_out, s_error, s_keys, s_last,
    \* the index file (index.json) and the clock its timestamp is read
    \* from; load_index: the loop index, the entries so far, the list
    \* returned; the entries given to write_index and the file of the first
    \* write; run_index: --status, the file before the run, where the run
    \* is, the exception that ended it, and the count it printed
    index_file, clock, ld_i, ld_entries, ld_result, ld_pc, w_entries, w_first,
    w_pc, r_status, r_old, r_pc, r_error, r_printed,
    \* _normalize_tail: the parts given and the string returned
    t_parts, t_result, t_pc

normVars == <<n_href, n_once, n_twice, n_pc>>

parserFields ==
    <<current_href, current_text_parts, pending_symbol, pending_label_base,
      pending_url, pending_tail_parts, entries>>

parserVars == <<parserFields, p_pc, p_result, p_ntok, p_last, p_script>>

lookupVars == <<l_entries, l_i, lookup, l_pc>>

filterVars == <<f_entries, f_query, f_i, scored, f_result, f_pc>>

batchVars ==
    <<b_query, print_only, b_tty, b_lookup, b_symbol, b_suggestion, b_options,
      b_via, b_pc, b_out, b_error, b_reads, b_last>>

selectVars ==
    <<s_print_only, s_tty, s_entries, s_pc, s_query, selected, s_height,
      s_symbol, s_options, s_out, s_error, s_keys, s_last>>

loadVars == <<ld_i, ld_entries, ld_result, ld_pc>>

writeVars == <<w_entries, w_first, w_pc>>

rebuildVars == <<r_status, r_old, r_pc, r_error, r_printed>>

storeVars == <<index_file, clock, loadVars, writeVars, rebuildVars>>

tailVars == <<t_parts, t_result, t_pc>>

\* The variables added to the five groups above.
moreVars == <<selectVars, storeVars, tailVars>>

vars == <<normVars, parserVars, lookupVars, filterVars, batchVars, moreVars>>

\* What the actions of one specification leave alone.
notNorm == <<parserVars, lookupVars, filterVars, batchVars, moreVars>>

notParser == <<normVars, lookupVars, filterVars, batchVars, moreVars>>

notLookup == <<normVars, parserVars, filterVars, batchVars, moreVars>>

notFilter == <<normVars, parserVars, lookupVars, batchVars, moreVars>>

notBatch == <<normVars, parserVars, lookupVars, filterVars, moreVars>>

\* The five groups above.
firstVars == <<normVars, parserVars, lookupVars, filterVars, batchVars>>

notSelect == <<firstVars, storeVars, tailVars>>

notTail == <<firstVars, selectVars, storeVars>>

\* What the actions on the index file leave alone, the parser aside.
notStore == <<normVars, lookupVars, filterVars, batchVars, selectVars, tailVars>>

\* A value for a variable that holds nothing yet.
Unset == <<"Unset">>

NormIdle == n_href = Unset /\ n_once = Unset /\ n_twice = Unset /\ n_pc = "idle"

\* The empty dict.
EmptyDict == [k \in {} |-> <<>>]

ParserIdle ==
    /\ current_href = Unset /\ current_text_parts = Unset
    /\ pending_symbol = Unset /\ pending_label_base = Unset
    /\ pending_url = Unset /\ pending_tail_parts = Unset
    /\ entries = Unset
    /\ p_pc = "idle" /\ p_result = Unset /\ p_ntok = 0
    /\ p_last = [kind |-> "none"] /\ p_script = Unset

LookupIdle == l_entries = Unset /\ l_i = 0 /\ lookup = Unset /\ l_pc = "idle"

FilterIdle ==
    /\ f_entries = Unset /\ f_query = Unset /\ f_i = 0
    /\ scored = Unset /\ f_result = Unset /\ f_pc = "idle"

BatchIdle ==
    /\ b_query = Unset /\ print_only = FALSE /\ b_tty = FALSE
    /\ b_lookup = Unset /\ b_symbol = Unset /\ b_suggestion = Unset
    /\ b_options = Unset /\ b_via = "none" /\ b_pc = "idle"
    /\ b_out = <<>> /\ b_error = "none" /\ b_reads = 0
    /\ b_last = [at |-> "none", line |-> Unset]

SelectIdle ==
    /\ s_print_only = FALSE /\ s_tty = FALSE /\ s_entries = Unset
    /\ s_pc = "idle" /\ s_query = Unset /\ selected = 0 /\ s_height = 0
    /\ s_symbol = Unset /\ s_options = Unset /\ s_out = <<>>
    /\ s_error = "none" /\ s_keys = 0
    /\ s_last = [at |-> "none", key |-> "none", rows |-> 0]

LoadIdle == ld_i = 0 /\ ld_entries = Unset /\ ld_result = Unset /\ ld_pc = "idle"

WriteIdle == w_entries = Unset /\ w_first = Unset /\ w_pc = "idle"

RebuildIdle ==
    /\ r_status = FALSE /\ r_old = Unset /\ r_pc = "idle"
    /\ r_error = "none" /\ r_printed = Unset

StoreIdle ==
    /\ index_file = Unset /\ clock = 0
    /\ LoadIdle /\ WriteIdle /\ RebuildIdle

TailIdle == t_parts = Unset /\ t_result = Unset /\ t_pc = "idle"

\* The groups added to the first five hold nothing.
MoreIdle == SelectIdle /\ StoreIdle /\ TailIdle

(***************************************************************************)
(* Inputs of the normalizer: prefix \o segments joined by "/" \o suffix    *)
(***************************************************************************)

\* The longest segment list of a generated href.
MaxSegs == 2

HrefPrefixes ==
    { <<>>, <<"/">>, <<"/", "/">>, <<"/", "/", "/">>, <<" ", "/">>,
      DocRoot, Tail(DocRoot), <<".", ".", "/">>,
      Https \o <<"h">>, Https \o <<"h">> \o DocRoot, Http \o <<"h", "/">>,
      Mwiki, <<"/">> \o Mwiki, Mailto }

HrefSegments ==
    { <<"x">>, <<".">>, <<".", ".">>, <<"w">>, <<"c", "p", "p">>,
      From(SYMBOL_INDEX_PATH, 6) }

HrefSuffixes == { <<>>, <<"#", "a">>, <<"/">>, <<"?", "q">>, <<" ">> }

SegLists == UNION { [1..n -> HrefSegments] : n \in 0..MaxSegs }

Hrefs ==
    { p \o Join(segs, <<"/">>) \o s :
        p \in HrefPrefixes, segs \in SegLists, s \in HrefSuffixes }

(***************************************************************************)
(* SpecNorm: _normalize_href on an href and on the path it returned        *)
(***************************************************************************)

NormInit ==
    /\ ParserIdle /\ LookupIdle /\ FilterIdle /\ BatchIdle /\ MoreIdle
    /\ n_href \in Hrefs
    /\ n_once = Unset
    /\ n_twice = Unset
    /\ n_pc = "start"

NormalizeOnce ==
    /\ n_pc = "start"
    /\ n_once' = NormalizeHref(n_href)
    /\ n_pc' = "once"
    /\ UNCHANGED <<n_href, n_twice, notNorm>>

NormalizeTwice ==
    /\ n_pc = "once"
    /\ n_once # None
    /\ n_twice' = NormalizeHref(n_once)
    /\ n_pc' = "twice"
    /\ UNCHANGED <<n_href, n_once, notNorm>>

NormNext == NormalizeOnce \/ NormalizeTwice

SpecNorm == NormInit /\ [][NormNext]_vars


(***************************************************************************)
(* index.py: _SymbolIndexParser                                            *)
(***************************************************************************)

\* Python's truth value of an Optional[str]: neither None nor "".
Truthy(v) == v # None /\ v # <<>>

\* IndexOption(label, url)
IndexOption(label, url) == [label |-> label, url |-> url]

\* IndexEntry(symbol, options)
IndexEntry(symbol, options) == [symbol |-> symbol, options |-> options]

\* str.translate deleting "(", ")", "<" and ">".
DeleteBrackets(s) == SelectSeq(s, LAMBDA c : c \notin {"(", ")", "<", ">"})

\* _clean_symbol
CleanSymbol(symbol) ==
    IF symbol = <<>> THEN symbol ELSE Strip(DeleteBrackets(symbol))

\* while "  " in tail: tail = tail.replace("  ", " ")
RECURSIVE CollapseSpaces(_)
CollapseSpaces(tail) ==
    IF Contains(tail, <<" ", " ">>)
    THEN CollapseSpaces(Replace(tail, <<" ", " ">>, <<" ">>))
    ELSE tail

\* _normalize_tail
NormalizeTail(parts) ==
    IF parts = <<>> THEN <<>>
    ELSE CollapseSpaces(
             Replace(Replace(Strip(Join(parts, <<" ">>)),
                             <<"(", " ">>, <<"(">>),
                     <<" ", ")">>, <<")">>))

\* A mutant of the dedup test: every option counts as new.
IsNewOptionNoCheck(options, option) == TRUE

\* all(existing.url != option.url or existing.label != option.label ...)
IsNewOption(options, option) ==
    \A i \in 1..Len(options) :
        options[i].url # option.url \/ options[i].label # option.label

\* options = d.setdefault(symbol, []); append option unless already there
AddOption(d, symbol, option) ==
    LET options == IF symbol \in DOMAIN d THEN d[symbol] ELSE <<>>
        updated == IF IsNewOption(options, option)
                   THEN Append(options, option) ELSE options
    IN  [k \in DOMAIN d \cup {symbol} |-> IF k = symbol THEN updated ELSE d[k]]

\* The label _finalize_pending builds: the label base, then the tail.
PendingLabel ==
    LET tail  == NormalizeTail(pending_tail_parts)
        label == IF Truthy(pending_label_base)
                 THEN pending_label_base ELSE pending_symbol
    IN  IF tail # <<>> THEN label \o <<" ">> \o tail ELSE label

\* self.entries after _finalize_pending
FinalizedEntries ==
    IF ~Truthy(pending_symbol) \/ ~Truthy(pending_url) THEN entries
    ELSE AddOption(entries, pending_symbol,
                   IndexOption(PendingLabel, pending_url))

\* A mutant of the clearing of the pending fields: only the symbol is
\* cleared.
ClearSymbolOnly ==
    /\ pending_symbol' = None
    /\ UNCHANGED <<pending_label_base, pending_url, pending_tail_parts>>

\* The pending fields as _finalize_pending and a discarding close leave them.
ClearPending ==
    /\ pending_symbol' = None
    /\ pending_label_base' = None
    /\ pending_url' = None
    /\ pending_tail_parts' = <<>>

\* A mutant of _finalize_pending: the pending fields are not cleared.
FinalizeKeepPending ==
    /\ entries' = FinalizedEntries
    /\ UNCHANGED <<pending_symbol, pending_label_base, pending_url,
                   pending_tail_parts>>

\* _finalize_pending
FinalizePending ==
    /\ entries' = FinalizedEntries
    /\ ClearPending

\* handle_starttag(tag, attrs): href is the value of the first href
\* attribute, None when the tag has none.
HandleStarttag(tag, href) ==
    IF tag = "br"
    THEN /\ FinalizePending
         /\ UNCHANGED <<current_href, current_text_parts>>
    ELSE IF tag # "a"
    THEN UNCHANGED parserFields
    ELSE /\ FinalizePending
         /\ IF Truthy(href)
            THEN current_href' = href /\ current_text_parts' = <<>>
            ELSE UNCHANGED <<current_href, current_text_parts>>

\* handle_data
HandleData(data) ==
    LET text == Strip(data)
    IN  IF current_href = None
        THEN /\ pending_tail_parts' =
                    IF pending_url # None /\ text # <<>>
                    THEN Append(pending_tail_parts, text)
                    ELSE pending_tail_parts
             /\ UNCHANGED <<current_href, current_text_parts, pending_symbol,
                            pending_label_base, pending_url, entries>>
        ELSE /\ current_text_parts' =
                    IF text # <<>> THEN Append(current_text_parts, text)
                    ELSE current_text_parts
             /\ UNCHANGED <<current_href, pending_symbol, pending_label_base,
                            pending_url, pending_tail_parts, entries>>

\* A mutant of the close-time test: the index page's own path is accepted.
DiscardsKeepSelf(cleaned, normalized) == cleaned = <<>> \/ ~Truthy(normalized)

\* not cleaned or not normalized or normalized.startswith("w/cpp/symbol_index")
Discards(cleaned, normalized) ==
    \/ cleaned = <<>>
    \/ ~Truthy(normalized)
    \/ StartsWith(normalized, SelfPrefix)

\* handle_endtag
HandleEndtag(tag) ==
    IF tag # "a" \/ current_href = None
    THEN UNCHANGED parserFields
    ELSE LET raw_text   == Strip(Join(current_text_parts, <<>>))
             cleaned    == CleanSymbol(raw_text)
             normalized == NormalizeHref(current_href)
         IN  /\ current_href' = None
             /\ current_text_parts' = <<>>
             /\ UNCHANGED entries
             /\ IF Discards(cleaned, normalized)
                THEN ClearPending
                ELSE /\ pending_symbol' = cleaned
                     /\ pending_label_base' =
                            IF raw_text # <<>> THEN raw_text ELSE cleaned
                     /\ pending_url' = normalized
                     /\ pending_tail_parts' = <<>>

\* sorted(keys): the keys in ascending order.
RECURSIVE SortedKeys(_)
SortedKeys(keys) ==
    IF keys = {} THEN <<>>
    ELSE LET least == CHOOSE k \in keys : \A j \in keys \ {k} : StrLess(k, j)
         IN  <<least>> \o SortedKeys(keys \ {least})

\* [IndexEntry(symbol=k, options=v) for k, v in sorted(d.items())]
EntryList(d) ==
    LET keys == SortedKeys(DOMAIN d)
    IN  [i \in 1..Len(keys) |-> IndexEntry(keys[i], d[keys[i]])]

\* _SymbolIndexParser()
ParserNew ==
    /\ current_href = None
    /\ current_text_parts = <<>>
    /\ pending_symbol = None
    /\ pending_label_base = None
    /\ pending_url = None
    /\ pending_tail_parts = <<>>
    /\ entries = EmptyDict

\* A token the tokenizer hands to the parser.
StartTok(tag, href) == [kind |-> "start", tag |-> tag, href |-> href]

DataTok(data) == [kind |-> "data", data |-> data]

EndTok(tag) == [kind |-> "end", tag |-> tag]

\* The tokenizer's dispatch of one token to its handler.
Feed(tok) ==
    CASE tok.kind = "start" -> HandleStarttag(tok.tag, tok.href)
      [] tok.kind = "data" -> HandleData(tok.data)
      [] tok.kind = "end" -> HandleEndtag(tok.tag)

\* What p_last records of a token: for an end tag, also the href of the
\* anchor it closes (None when it closes none).
LastOf(tok) ==
    IF tok.kind = "end"
    THEN [kind |-> "end", tag |-> tok.tag,
          closed |-> IF tok.tag = "a" THEN current_href ELSE None]
    ELSE tok

\* parser.close() and the return of parse_symbol_index
Close ==
    /\ FinalizePending
    /\ UNCHANGED <<current_href, current_text_parts>>
    /\ p_result' = EntryList(FinalizedEntries)
    /\ p_pc' = "closed"
    /\ p_last' = [kind |-> "close"]

(***************************************************************************)
(* SpecParse: parse_symbol_index on any token sequence                     *)
(***************************************************************************)

\* The longest token sequence fed before the end of input.
MaxTokens == 6

Tags == {"a", "br", "b"}

\* "w/cpp/v", "/w/cpp/v", "w/cpp/symbol_index.html", "symbol_index.html",
\* "/w/cpp/symbol_index.html#a", "https://h/w/cpp/symbol_index.html",
\* "mwiki/x", and a tag without href
ParseHrefs ==
    { Tail(DocRoot) \o <<"v">>, DocRoot \o <<"v">>,
      SYMBOL_INDEX_PATH,
      From(SYMBOL_INDEX_PATH, 6),
      <<"/">> \o SYMBOL_INDEX_PATH \o <<"#", "a">>,
      Https \o <<"h", "/">> \o SYMBOL_INDEX_PATH,
      Mwiki \o <<"x">>, None }

ParseTexts == { <<"v">>, <<"(", "x", ")">>, <<"(">>, <<" ", "x", " ">>, <<" ">> }

ParseInit ==
    /\ NormIdle /\ LookupIdle /\ FilterIdle /\ BatchIdle /\ MoreIdle
    /\ ParserNew
    /\ p_pc = "feed"
    /\ p_result = Unset
    /\ p_ntok = 0
    /\ p_last = [kind |-> "none"]
    /\ p_script = Unset

\* One more token is fed (parser.feed), within the bound.
Fed(tok) ==
    /\ p_pc = "feed"
    /\ p_ntok < MaxTokens
    /\ p_ntok' = p_ntok + 1
    /\ p_last' = LastOf(tok)
    /\ UNCHANGED <<p_pc, p_result, p_script, notParser>>

ParseStarttag ==
    \E tag \in Tags, href \in ParseHrefs :
        /\ tag # "a" => href = None
        /\ Fed(StartTok(tag, href))
        /\ HandleStarttag(tag, href)

ParseData == \E data \in ParseTexts : Fed(DataTok(data)) /\ HandleData(data)

ParseEndtag == \E tag \in Tags \ {"br"} : Fed(EndTok(tag)) /\ HandleEndtag(tag)

ParseClose ==
    /\ p_pc = "feed"
    /\ Close
    /\ UNCHANGED <<p_ntok, p_script, notParser>>

ParseNext == ParseStarttag \/ ParseData \/ ParseEndtag \/ ParseClose

SpecParse == ParseInit /\ [][ParseNext]_vars


(***************************************************************************)
(* SpecAnchor: parse_symbol_index on the markup of one anchor and a line   *)
(* break, <a href=h>t</a><br>                                              *)
(***************************************************************************)

\* "w/cpp/v", "w/cpp/x/v" (the relative documentation-root form),
\* "/w/cpp/v", "v", "x/v", "https://h/w/cpp/v", "/w/cpp/v#a"
AnchorHrefs ==
    { Tail(DocRoot) \o <<"v">>, Tail(DocRoot) \o <<"x", "/", "v">>,
      DocRoot \o <<"v">>, <<"v">>, <<"x", "/", "v">>,
      Https \o <<"h">> \o DocRoot \o <<"v">>,
      DocRoot \o <<"v", "#", "a">> }

AnchorTexts == { <<"v">>, <<"x", "v">>, <<"V">>, <<"(", "v", ")">>, <<" ", "v">> }

AnchorMarkup(h, t) ==
    <<StartTok("a", h), DataTok(t), EndTok("a"), StartTok("br", None)>>

AnchorInit ==
    /\ NormIdle /\ LookupIdle /\ FilterIdle /\ BatchIdle /\ MoreIdle
    /\ ParserNew
    /\ p_pc = "feed"
    /\ p_result = Unset
    /\ p_ntok = 0
    /\ p_last = [kind |-> "none"]
    /\ p_script \in { AnchorMarkup(h, t) : h \in AnchorHrefs, t \in AnchorTexts }

\* parser.feed(html), token by token
AnchorFeed ==
    /\ p_pc = "feed"
    /\ p_ntok < Len(p_script)
    /\ Feed(p_script[p_ntok + 1])
    /\ p_ntok' = p_ntok + 1
    /\ p_last' = LastOf(p_script[p_ntok + 1])
    /\ UNCHANGED <<p_pc, p_result, p_script, notParser>>

AnchorClose ==
    /\ p_pc = "feed"
    /\ p_ntok = Len(p_script)
    /\ Close
    /\ UNCHANGED <<p_ntok, p_script, notParser>>

AnchorNext == AnchorFeed \/ AnchorClose

SpecAnchor == AnchorInit /\ [][AnchorNext]_vars

(***************************************************************************)
(* index.py: build_lookup                                                  *)
(***************************************************************************)

\* "std::"
StdPrefix == <<"s", "t", "d", ":", ":">>

\* dict.setdefault(key, value): the dict afterwards.
SetDefault(d, key, value) ==
    IF key \in DOMAIN d THEN d
    ELSE [k \in DOMAIN d \cup {key} |-> IF k = key THEN value ELSE d[k]]

\* One iteration of build_lookup's loop: the entry's own key, then the
\* unqualified alias of a std::-prefixed symbol.
LookupWith(d, entry) ==
    LET own == SetDefault(d, entry.symbol, entry.options)
    IN  IF StartsWith(entry.symbol, StdPrefix)
        THEN SetDefault(own, From(entry.symbol, Len(StdPrefix)), entry.options)
        ELSE own

\* build_lookup(entries)
RECURSIVE BuildLookupFrom(_, _)
BuildLookupFrom(d, es) ==
    IF es = <<>> THEN d ELSE BuildLookupFrom(LookupWith(d, Head(es)), Tail(es))

BuildLookup(es) == BuildLookupFrom(EmptyDict, es)

(***************************************************************************)
(* SpecLookup: build_lookup on a stored index                              *)
(***************************************************************************)

\* The most entries of a stored index.
MaxEntries == 4

\* "std::v", "v", "std::ab", "ab", "std::x", "sv"
LookupSymbols ==
    { StdPrefix \o <<"v">>, <<"v">>, StdPrefix \o <<"a", "b">>, <<"a", "b">>,
      StdPrefix \o <<"x">>, <<"s", "v">> }

\* The options stored for a symbol: one page, and a second one for the
\* symbols that end in "v".
StoredOptions(sym) ==
    <<IndexOption(sym, Tail(DocRoot) \o sym)>>
    \o (IF sym[Len(sym)] = "v"
        THEN <<IndexOption(sym \o <<" ", "(", "2", ")">>,
                           Tail(DocRoot) \o sym \o <<"2">>)>>
        ELSE <<>>)

\* The index write_index stores for a set of symbols: sorted by symbol.
StoredIndex(syms) == EntryList([sym \in syms |-> StoredOptions(sym)])

StoredIndexes ==
    { StoredIndex(syms) :
        syms \in {S \in SUBSET LookupSymbols : Cardinality(S) <= MaxEntries} }

LookupInit ==
    /\ NormIdle /\ ParserIdle /\ FilterIdle /\ BatchIdle /\ MoreIdle
    /\ l_entries \in StoredIndexes
    /\ l_i = 0
    /\ lookup = EmptyDict
    /\ l_pc = "loop"

\* for entry in entries: ... (one iteration)
LookupStep ==
    /\ l_pc = "loop"
    /\ l_i < Len(l_entries)
    /\ lookup' = LookupWith(lookup, l_entries[l_i + 1])
    /\ l_i' = l_i + 1
    /\ UNCHANGED <<l_entries, l_pc, notLookup>>

\* return lookup
LookupReturn ==
    /\ l_pc = "loop"
    /\ l_i = Len(l_entries)
    /\ l_pc' = "done"
    /\ UNCHANGED <<l_entries, l_i, lookup, notLookup>>

LookupNext == LookupStep \/ LookupReturn

SpecLookup == LookupInit /\ [][LookupNext]_vars


(***************************************************************************)
(* cli.py: _match_score and _filter_entries                                *)
(***************************************************************************)

\* An Optional[int]: NoScore is None, Score(n) is the integer n.
NoScore == <<>>

Score(n) == <<n>>

\* The contiguous-match bonus of _match_score (score -= 10).
ContiguousBonus == 10

\* A mutant of the scan: the next character is looked for from the match
\* position itself (idx = pos), so one character can match twice.
RECURSIVE ScanQueryFromPos(_, _, _, _)
ScanQueryFromPos(symbol_l, rest, idx, score) ==
    IF rest = <<>> THEN Score(score)
    ELSE LET pos == Find(symbol_l, <<Head(rest)>>, idx)
         IN  IF pos = -1 THEN NoScore
             ELSE ScanQueryFromPos(symbol_l, Tail(rest), pos, score + pos)

\* The loop of _match_score: for ch in query_l, from index idx with the
\* score so far.
RECURSIVE ScanQuery(_, _, _, _)
ScanQuery(symbol_l, rest, idx, score) ==
    IF rest = <<>> THEN Score(score)
    ELSE LET pos == Find(symbol_l, <<Head(rest)>>, idx)
         IN  IF pos = -1 THEN NoScore
             ELSE ScanQuery(symbol_l, Tail(rest), pos + 1, score + pos)

\* The scan of _match_score from the start of the symbol.
ScanFromStart(symbol_l, query_l) == ScanQuery(symbol_l, query_l, 0, 0)

\* _match_score(symbol, query)
MatchScore(symbol, query) ==
    IF query = <<>> THEN Score(0)
    ELSE LET symbol_l == Lower(symbol)
             query_l  == Lower(query)
             scan     == ScanFromStart(symbol_l, query_l)
         IN  IF scan = NoScore THEN NoScore
             ELSE IF Contains(symbol_l, query_l)
                  THEN Score(scan[1] - ContiguousBonus)
                  ELSE scan

\* A mutant of the sort key: the score alone, key=lambda item: item[0].
KeyLessByScore(a, b) == a[1] < b[1]

\* The sort key (item[0], item[1]) of _filter_entries, compared as Python
\* compares tuples: a < b.
KeyLess(a, b) ==
    \/ a[1] < b[1]
    \/ a[1] = b[1] /\ StrLess(a[2], b[2])

\* list.sort(key=...) is stable: an item goes after the items whose key is
\* not greater than its own.
RECURSIVE InsertSorted(_, _)
InsertSorted(sorted, item) ==
    IF sorted = <<>> THEN <<item>>
    ELSE IF KeyLess(item, Head(sorted)) THEN <<item>> \o sorted
    ELSE <<Head(sorted)>> \o InsertSorted(Tail(sorted), item)

RECURSIVE SortScored(_)
SortScored(items) ==
    IF items = <<>> THEN <<>>
    ELSE InsertSorted(SortScored(Upto(items, Len(items) - 1)), items[Len(items)])

\* return [(symbol, entry) for _, symbol, entry in scored]
DropScores(items) == [i \in 1..Len(items) |-> <<items[i][2], items[i][3]>>]

(***************************************************************************)
(* SpecFilter: _filter_entries on a candidate list and a query             *)
(***************************************************************************)

\* The most candidates given to _filter_entries.
MaxCands == 3

\* "abc", "abd", "xabc", "ba", "aXb", "AB", "b", "bab", "aab"
Candidates ==
    { <<"a", "b", "c">>, <<"a", "b", "d">>, <<"x", "a", "b", "c">>,
      <<"b", "a">>, <<"a", "X", "b">>, <<"A", "B">>, <<"b">>,
      <<"b", "a", "b">>, <<"a", "a", "b">> }

\* "", "ab", "AB", "a", "ba", "xb", "bb", "abcd", "bab"
Queries ==
    { <<>>, <<"a", "b">>, <<"A", "B">>, <<"a">>, <<"b", "a">>, <<"x", "b">>,
      <<"b", "b">>, <<"a", "b", "c", "d">>, <<"b", "a", "b">> }

\* The (symbol, entry) pair of a candidate.
CandidatePair(c) == <<c, IndexEntry(c, <<IndexOption(c, Tail(DocRoot) \o c)>>)>>

\* The lists of distinct candidates, in every order.
CandidateLists ==
    { [i \in 1..Len(cs) |-> CandidatePair(cs[i])] :
        cs \in { l \in UNION { [1..n -> Candidates] : n \in 0..MaxCands } :
                   \A i, j \in 1..Len(l) : i # j => l[i] # l[j] } }

FilterInit ==
    /\ NormIdle /\ ParserIdle /\ LookupIdle /\ BatchIdle /\ MoreIdle
    /\ f_entries \in CandidateLists
    /\ f_query \in Queries
    /\ f_i = 0
    /\ scored = <<>>
    /\ f_result = Unset
    /\ f_pc = "loop"

\* for symbol, entry in entries: ... (one iteration)
FilterScore ==
    /\ f_pc = "loop"
    /\ f_i < Len(f_entries)
    /\ LET symbol == f_entries[f_i + 1][1]
           entry  == f_entries[f_i + 1][2]
           score  == MatchScore(symbol, f_query)
       IN  scored' = IF score # NoScore
                     THEN Append(scored, <<score[1], symbol, entry>>)
                     ELSE scored
    /\ f_i' = f_i + 1
    /\ UNCHANGED <<f_entries, f_query, f_result, f_pc, notFilter>>

\* scored.sort(...); return [...]
FilterSort ==
    /\ f_pc = "loop"
    /\ f_i = Len(f_entries)
    /\ f_result' = DropScores(SortScored(scored))
    /\ f_pc' = "done"
    /\ UNCHANGED <<f_entries, f_query, f_i, scored, notFilter>>

FilterNext == FilterScore \/ FilterSort

SpecFilter == FilterInit /\ [][FilterNext]_vars


(***************************************************************************)
(* difflib.get_close_matches, as run_search_non_interactive calls it       *)
(***************************************************************************)

\* SequenceMatcher.find_longest_match(alo, ahi, blo, bhi) without junk: the
\* longest block a[i:i+k] = b[j:j+k] in the ranges, the one that starts
\* earliest in a and, among those, earliest in b; <<alo, blo, 0>> if none.
LongestMatch(a, b, alo, ahi, blo, bhi) ==
    LET blocks == { m \in (alo..(ahi - 1)) \X (blo..(bhi - 1)) \X (1..(ahi - alo)) :
                      /\ m[1] + m[3] <= ahi
                      /\ m[2] + m[3] <= bhi
                      /\ SubSeq(a, m[1] + 1, m[1] + m[3])
                             = SubSeq(b, m[2] + 1, m[2] + m[3]) }
        better(m, n) == \/ m[3] > n[3]
                        \/ m[3] = n[3] /\ m[1] < n[1]
                        \/ m[3] = n[3] /\ m[1] = n[1] /\ m[2] < n[2]
    IN  IF blocks = {} THEN <<alo, blo, 0>>
        ELSE CHOOSE m \in blocks : \A n \in blocks \ {m} : better(m, n)

\* The characters in SequenceMatcher.get_matching_blocks(): the longest
\* block, then the same to its left and to its right.
RECURSIVE Matches(_, _, _, _, _, _)
Matches(a, b, alo, ahi, blo, bhi) ==
    LET m == LongestMatch(a, b, alo, ahi, blo, bhi)
        i == m[1]
        j == m[2]
        k == m[3]
    IN  IF k = 0 THEN 0
        ELSE k + (IF alo < i /\ blo < j THEN Matches(a, b, alo, i, blo, j) ELSE 0)
               + (IF i + k < ahi /\ j + k < bhi
                  THEN Matches(a, b, i + k, ahi, j + k, bhi) ELSE 0)

\* SequenceMatcher(a=x, b=word).ratio() = 2.0 * matches / (len(a) + len(b)),
\* kept as the fraction <<2 * matches, len(a) + len(b)>>; 1.0 when both
\* are empty.
Ratio(x, word) ==
    IF Len(x) + Len(word) = 0 THEN <<1, 1>>
    ELSE <<2 * Matches(x, word, 0, Len(x), 0, Len(word)), Len(x) + Len(word)>>

\* cutoff=0.6, as the fraction 6 / 10
CutoffNum == 6

CutoffDen == 10

\* ratio >= cutoff (the two quick ratios are upper bounds of ratio, so the
\* three tests of get_close_matches are this one)
IsClose(x, word) ==
    LET r == Ratio(x, word) IN r[1] * CutoffDen >= CutoffNum * r[2]

\* difflib.get_close_matches(word, keys, n=1, cutoff=0.6): the list of at
\* most one key, the largest (ratio, key) among the close ones.
GetCloseMatches(word, keys) ==
    LET close == { x \in keys : IsClose(x, word) }
        greater(x, y) ==
            LET rx == Ratio(x, word)
                ry == Ratio(y, word)
            IN  \/ rx[1] * ry[2] > ry[1] * rx[2]
                \/ rx[1] * ry[2] = ry[1] * rx[2] /\ StrLess(y, x)
    IN  IF close = {} THEN <<>>
        ELSE <<CHOOSE x \in close : \A y \in close \ {x} : greater(x, y)>>

(***************************************************************************)
(* cli.py: run_search_non_interactive                                      *)
(***************************************************************************)

\* The end of input on stdin (input() raises EOFError).
EOF == <<"EOF">>

\* The absolute URL open_url and print_url make of a url.
Rehydrate(url) ==
    IF StartsWith(url, <<"w", "/">>) THEN BASE_URL \o <<"/">> \o url
    ELSE IF StartsWith(url, <<"/", "w", "/">>) THEN BASE_URL \o url
    ELSE url

\* open_url(url): the absolute URL is handed to the opener. (Finding and
\* launching the opener is the opener collaborator's part.)
OpenUrl(url) == [kind |-> "open", url |-> Rehydrate(url)]

\* print_url(url)
PrintUrl(url) == [kind |-> "print", url |-> Rehydrate(url)]

\* if print_only: print_url(url) else: open_url(url)
EmitByMode(url) == IF print_only THEN PrintUrl(url) ELSE OpenUrl(url)

\* What the branch of an accepted suggestion does with the url:
\* open_url(url), whatever print_only is (cli.py:125).
EmitSuggested(url) == OpenUrl(url)

\* A mutant of require_tty: it never raises.
RequireTtyNever == TRUE

\* require_tty passes: stdin and stdout are terminals.
RequireTty == b_tty

\* The run ends: pc is "done" (returned) or "error" (an exception left
\* run_search_non_interactive). (The local `symbol` is set by the actions.)
BatchEnd(pc, out, error) ==
    /\ b_pc' = pc
    /\ b_out' = out
    /\ b_error' = error
    /\ UNCHANGED <<b_suggestion, b_options, b_via>>

\* choose_url(symbol, options) up to its return or its selection loop; via
\* is the call it is: "exact" (cli.py:106) or "suggested" (cli.py:123).
ChooseUrl(options, via) ==
    IF Len(options) = 1
    THEN LET url == options[1].url
         IN  IF url # <<>>
             THEN BatchEnd("done",
                           Append(b_out, IF via = "exact" THEN EmitByMode(url)
                                         ELSE EmitSuggested(url)),
                           "none")
             ELSE BatchEnd("done", b_out, "none")
    ELSE IF ~RequireTty
    THEN BatchEnd("error", b_out, "InteractiveRequired")
    ELSE /\ b_pc' = "select"
         /\ b_options' = options
         /\ b_via' = via
         /\ UNCHANGED <<b_suggestion, b_out, b_error>>

\* One pass of the while loop for `symbol`, up to the end of the run or to
\* the next read of the terminal.
LoopBody(symbol) ==
    IF symbol \in DOMAIN b_lookup /\ b_lookup[symbol] # <<>>
    THEN /\ ChooseUrl(b_lookup[symbol], "exact")
    ELSE LET suggestions == GetCloseMatches(symbol, DOMAIN b_lookup)
         IN  IF suggestions # <<>>
             THEN IF ~RequireTty
                  THEN BatchEnd("error", b_out, "InteractiveRequired")
                  ELSE /\ b_pc' = "choice_suggested"
                       /\ b_suggestion' = suggestions[1]
                       /\ UNCHANGED <<b_options, b_via, b_out, b_error>>
             ELSE IF ~RequireTty
                  THEN BatchEnd("error", b_out, "InteractiveRequired")
                  ELSE /\ b_pc' = "choice_nomatch"
                       /\ UNCHANGED <<b_suggestion, b_options, b_via, b_out, b_error>>

\* prompt_for_choice: the line read, stripped and lower-cased; "q" at the
\* end of input.
PromptForChoice(line) == IF line = EOF THEN <<"q">> ELSE Lower(Strip(line))

\* ("", "o", "y", "yes")
OpenChoices == { <<>>, <<"o">>, <<"y">>, <<"y", "e", "s">> }

\* ("s", "search")
SearchChoices == { <<"s">>, <<"s", "e", "a", "r", "c", "h">> }

(***************************************************************************)
(* SpecBatch: run_search_non_interactive                                   *)
(***************************************************************************)

\* The most lines and selections read from the terminal in one run.
MaxReads == 3

\* "std::ab", "std::v", "v"
BatchSymbols == { StdPrefix \o <<"a", "b">>, StdPrefix \o <<"v">>, <<"v">> }

\* "ab", " v ", "std::v", "a", "vv", "q", "", " "
BatchQueries ==
    { <<"a", "b">>, <<" ", "v", " ">>, StdPrefix \o <<"v">>, <<"a">>,
      <<"v", "v">>, <<"q">>, <<>>, <<" ">> }

\* The lines typed at a choice prompt, and the end of input.
ChoiceLines ==
    { <<>>, <<"o">>, <<"Y">>, <<"y", "e", "s">>, <<"s">>,
      <<" ", "S", "e", "a", "r", "c", "h">>, <<"q">>, <<"x">>, EOF }

\* The lines typed at the "Symbol: " prompt, and the end of input.
SymbolLines == BatchQueries \cup {EOF}

BatchInit ==
    /\ NormIdle /\ ParserIdle /\ LookupIdle /\ FilterIdle /\ MoreIdle
    /\ b_query \in BatchQueries
    /\ print_only \in BOOLEAN
    /\ b_tty \in BOOLEAN
    /\ b_lookup \in { BuildLookup(StoredIndex(syms)) : syms \in SUBSET BatchSymbols }
    /\ b_symbol = Unset
    /\ b_suggestion = Unset
    /\ b_options = Unset
    /\ b_via = "none"
    /\ b_pc = "start"
    /\ b_out = <<>>
    /\ b_error = "none"
    /\ b_reads = 0
    /\ b_last = [at |-> "none", line |-> Unset]

\* A line or a selection is read at the position `at`.
Read(at, line) ==
    /\ b_pc = at
    /\ b_reads < MaxReads
    /\ b_reads' = b_reads + 1
    /\ b_last' = [at |-> at, line |-> line]
    /\ UNCHANGED <<b_query, print_only, b_tty, b_lookup, notBatch>>

\* cli.py:96-112: load, build_lookup, strip, and the first pass of the loop
BatchStart ==
    /\ b_pc = "start"
    /\ LET symbol == Strip(b_query)
       IN  IF symbol = <<>>
           THEN /\ b_symbol' = symbol
                /\ b_pc' = "error"
                /\ b_error' = "UsageError"
                /\ UNCHANGED <<b_suggestion, b_options, b_via, b_out>>
           ELSE /\ b_symbol' = symbol
                /\ LoopBody(symbol)
    /\ UNCHANGED <<b_query, print_only, b_tty, b_lookup, b_reads, b_last, notBatch>>

\* cli.py:118-130: the answer to "[o]pen suggested, [s]earch again, [q]uit"
BatchChoiceSuggested ==
    \E line \in ChoiceLines :
        /\ Read("choice_suggested", line)
        /\ UNCHANGED b_symbol
        /\ LET choice == PromptForChoice(line)
           IN  IF choice \in OpenChoices
               THEN ChooseUrl(b_lookup[b_suggestion], "suggested")
               ELSE IF choice \in SearchChoices
               THEN /\ b_pc' = "input"
                    /\ UNCHANGED <<b_symbol, b_suggestion, b_options, b_via,
                                   b_out, b_error>>
               ELSE BatchEnd("done", b_out, "none")

\* cli.py:133-139: the answer to "[s]earch again, [q]uit"
BatchChoiceNoMatch ==
    \E line \in ChoiceLines :
        /\ Read("choice_nomatch", line)
        /\ UNCHANGED b_symbol
        /\ LET choice == PromptForChoice(line)
           IN  IF choice \in SearchChoices \cup {<<>>}
               THEN /\ b_pc' = "input"
                    /\ UNCHANGED <<b_symbol, b_suggestion, b_options, b_via,
                                   b_out, b_error>>
               ELSE BatchEnd("done", b_out, "none")

\* cli.py:128-129 and 137-138: symbol = input("Symbol: ").strip(); continue
\* and the next pass of the loop. input() raises EOFError at the end of
\* input, which nothing catches.
BatchInput ==
    \E line \in SymbolLines :
        /\ Read("input", line)
        /\ IF line = EOF
           THEN BatchEnd("error", b_out, "EOFError") /\ UNCHANGED b_symbol
           ELSE /\ b_symbol' = Strip(line)
                /\ LoopBody(Strip(line))

\* cli.py:77-80 and what the caller does with the url: the selection loop
\* _select_option_curses returns one of the options (the k-th), or None
\* (k = 0).
BatchSelect ==
    /\ b_pc = "select"
    /\ \E k \in 0..Len(b_options) :
        /\ Read("select", IF k = 0 THEN None ELSE b_options[k].label)
        /\ UNCHANGED b_symbol
        /\ IF k = 0 \/ b_options[k].url = <<>>
           THEN BatchEnd("done", b_out, "none")
           ELSE BatchEnd("done",
                         Append(b_out, IF b_via = "exact"
                                       THEN EmitByMode(b_options[k].url)
                                       ELSE EmitSuggested(b_options[k].url)),
                         "none")

BatchNext ==
    \/ BatchStart
    \/ BatchChoiceSuggested
    \/ BatchChoiceNoMatch
    \/ BatchInput
    \/ BatchSelect

SpecBatch == BatchInit /\ [][BatchNext]_vars


(***************************************************************************)
(* cli.py: _interactive_select, _select_option_curses and                  *)
(* run_search_interactive                                                  *)
(***************************************************************************)

\* _filter_entries(entries, query) on a list of (text, item) pairs.
RECURSIVE ScoredEntries(_, _)
ScoredEntries(pairs, query) ==
    IF pairs = <<>> THEN <<>>
    ELSE LET score == MatchScore(Head(pairs)[1], query)
             rest  == ScoredEntries(Tail(pairs), query)
         IN  IF score # NoScore
             THEN <<<<score[1], Head(pairs)[1], Head(pairs)[2]>>>> \o rest
             ELSE rest

FilterEntries(pairs, query) == DropScores(SortScored(ScoredEntries(pairs, query)))

\* matches[: max(1, height - 3)]
Visible(pairs, query, height) ==
    LET matches == FilterEntries(pairs, query)
        rows    == IF height - 3 > 1 THEN height - 3 ELSE 1
    IN  IF Len(matches) <= rows THEN matches ELSE SubSeq(matches, 1, rows)

\* if selected >= len(visible): selected = max(0, len(visible) - 1)
Clamped(sel, rows) ==
    IF sel >= rows THEN (IF rows - 1 > 0 THEN rows - 1 ELSE 0) ELSE sel

\* Python's seq[i], i counted from 0 and, when negative, from the end.
Item(seq, i) == IF i < 0 THEN seq[Len(seq) + i + 1] ELSE seq[i + 1]

\* [(entry.symbol, entry) for entry in entries]
SymbolPairs(es) == [i \in 1..Len(es) |-> <<es[i].symbol, es[i]>>]

\* [(option.label, option) for option in options]
OptionPairs(options) == [i \in 1..Len(options) |-> <<options[i].label, options[i]>>]

\* The pairs the selection loop at `level` filters.
PairsAt(level) ==
    IF level = "symbols" THEN SymbolPairs(s_entries) ELSE OptionPairs(s_options)

\* The rows visible at the key read the run is at.
VisibleNow == Visible(PairsAt(s_pc), s_query, s_height)

\* The keys getch returns: escape (27), Enter (KEY_ENTER, 10, 13), KEY_UP,
\* KEY_DOWN, backspace (KEY_BACKSPACE, 127, 8), a printable character
\* (32..126), and any other key code (KEY_RESIZE, a function key).
Chars == { "v", "2", "x" }

Keys ==
    { [kind |-> k] : k \in {"esc", "enter", "up", "down", "backspace", "other"} }
    \cup { [kind |-> "char", ch |-> c] : c \in Chars }

\* The heights getmaxyx returns.
Heights == { 2, 5, 6 }

\* The query and the cursor after a key that leaves the loop running.
KeyQuery(key) ==
    CASE key.kind = "backspace" ->
             IF s_query = <<>> THEN <<>> ELSE SubSeq(s_query, 1, Len(s_query) - 1)
      [] key.kind = "char" -> Append(s_query, key.ch)
      [] OTHER -> s_query

KeySelected(key, rows) ==
    CASE key.kind = "up" -> IF selected - 1 > 0 THEN selected - 1 ELSE 0
      [] key.kind = "down" ->
             IF rows - 1 < selected + 1 THEN rows - 1 ELSE selected + 1
      [] key.kind \in {"backspace", "char"} -> 0
      [] OTHER -> selected

\* The loop goes round: the next pass reads the height, filters, clamps the
\* cursor and draws, and waits for the next key.
NextPass(level, options, query, sel, height) ==
    /\ s_pc' = level
    /\ s_options' = options
    /\ s_query' = query
    /\ s_height' = height
    /\ selected' = Clamped(sel, Len(Visible(IF level = "symbols"
                                            THEN SymbolPairs(s_entries)
                                            ELSE OptionPairs(options),
                                            query, height)))

\* The run ends: pc is "done" (returned) or "error" (an exception left
\* run_search_interactive).
SelectEnd(pc, out, error) ==
    /\ s_pc' = pc
    /\ s_out' = out
    /\ s_error' = error
    /\ UNCHANGED <<s_options, s_query, s_height, selected>>

\* A mutant of the output step: the URL is handed out and the run goes on.
SelectEmitAndStay(url) ==
    /\ s_out' = Append(s_out, IF s_print_only THEN PrintUrl(url) ELSE OpenUrl(url))
    /\ UNCHANGED <<s_pc, s_error, s_options, s_query, s_height, selected>>

\* if url: print_url(url) if print_only else open_url(url)
SelectEmit(url) ==
    IF url = <<>> THEN SelectEnd("done", s_out, "none")
    ELSE SelectEnd("done",
                   Append(s_out, IF s_print_only THEN PrintUrl(url) ELSE OpenUrl(url)),
                   "none")

(***************************************************************************)
(* SpecSelect: run_search_interactive                                      *)
(***************************************************************************)

\* The most keys read in one run.
MaxKeys == 3

\* "ab", "v", "std::v"
SelectSymbols == { <<"a", "b">>, <<"v">>, StdPrefix \o <<"v">> }

SelectInit ==
    /\ NormIdle /\ ParserIdle /\ LookupIdle /\ FilterIdle /\ BatchIdle
    /\ StoreIdle /\ TailIdle
    /\ s_print_only \in BOOLEAN
    /\ s_tty \in BOOLEAN
    /\ s_entries \in { StoredIndex(syms) : syms \in SUBSET SelectSymbols }
    /\ s_pc = "start"
    /\ s_query = Unset
    /\ selected = 0
    /\ s_height = 0
    /\ s_symbol = Unset
    /\ s_options = Unset
    /\ s_out = <<>>
    /\ s_error = "none"
    /\ s_keys = 0
    /\ s_last = [at |-> "none", key |-> "none", rows |-> 0]

\* A key is read at the selection loop `at`.
ReadKey(at, key) ==
    /\ s_pc = at
    /\ s_keys < MaxKeys
    /\ s_keys' = s_keys + 1
    /\ s_last' = [at |-> at, key |-> key.kind, rows |-> Len(VisibleNow)]
    /\ UNCHANGED <<s_print_only, s_tty, s_entries, notSelect>>

\* cli.py:280-282: require_tty, load_entries, and _interactive_select up to
\* its first key read
SelectStart ==
    /\ s_pc = "start"
    /\ IF ~s_tty
       THEN SelectEnd("error", s_out, "InteractiveRequired")
       ELSE /\ \E h \in Heights : NextPass("symbols", s_options, <<>>, 0, h)
            /\ UNCHANGED <<s_out, s_error>>
    /\ UNCHANGED <<s_print_only, s_tty, s_entries, s_symbol, s_keys, s_last,
                   notSelect>>

\* A key in _interactive_select (cli.py:197-219), and what
\* run_search_interactive does with the selection it returns (cli.py:283-291)
SelectSymbolKey ==
    \E key \in Keys, h \in Heights :
        /\ ReadKey("symbols", key)
        /\ LET rows == Len(VisibleNow)
           IN  CASE key.kind = "esc" ->
                        SelectEnd("done", s_out, "none") /\ UNCHANGED s_symbol
                 [] key.kind = "enter" /\ rows > 0 ->
                        LET symbol  == Item(VisibleNow, selected)[1]
                            options == Item(VisibleNow, selected)[2].options
                        IN  /\ s_symbol' = symbol
                            /\ IF Len(options) = 1
                               THEN SelectEmit(options[1].url)
                               ELSE IF ~s_tty
                               THEN SelectEnd("error", s_out, "InteractiveRequired")
                               ELSE /\ NextPass("options", options, <<>>, 0, h)
                                    /\ UNCHANGED <<s_out, s_error>>
                 [] OTHER ->
                        /\ NextPass("symbols", s_options, KeyQuery(key),
                                    KeySelected(key, rows), h)
                        /\ UNCHANGED <<s_symbol, s_out, s_error>>

\* A key in _select_option_curses (cli.py:248-268), and what choose_url and
\* run_search_interactive do with the option it returns
SelectOptionKey ==
    \E key \in Keys, h \in Heights :
        /\ ReadKey("options", key)
        /\ UNCHANGED s_symbol
        /\ LET rows == Len(VisibleNow)
           IN  CASE key.kind = "esc" -> SelectEnd("done", s_out, "none")
                 [] key.kind = "enter" ->
                        IF rows > 0
                        THEN SelectEmit(Item(VisibleNow, selected)[2].url)
                        ELSE SelectEnd("done", s_out, "none")
                 [] OTHER ->
                        /\ NextPass("options", s_options, KeyQuery(key),
                                    KeySelected(key, rows), h)
                        /\ UNCHANGED <<s_out, s_error>>

SelectNext == SelectStart \/ SelectSymbolKey \/ SelectOptionKey

SpecSelect == SelectInit /\ [][SelectNext]_vars


(***************************************************************************)
(* index.py: write_index and load_index                                    *)
(*                                                                         *)
(* The index file holds a JSON object.  A JSON object is a function from   *)
(* its keys; a value read with dict.get is null, a string or a list.       *)
(***************************************************************************)

JNull == [t |-> "null"]

JStr(s) == [t |-> "str", v |-> s]

JList(l) == [t |-> "list", v |-> l]

\* dict.get(key): the value, None when the key is absent.
Get(d, key) == IF key \in DOMAIN d THEN d[key] ELSE JNull

\* Python's truth value of a JSON value: not None, not "", not [].
JTruthy(value) == value.t # "null" /\ value.v # <<>>

\* INDEX_VERSION
INDEX_VERSION == 1

\* The index file: absent, or holding the JSON object `data`.
NoFile == [exists |-> FALSE]

FileOf(data) == [exists |-> TRUE, data |-> data]

\* for option in item.get("options") or []: keep the options whose label
\* and url are both truthy
RECURSIVE OptionsOf(_)
OptionsOf(list) ==
    IF list = <<>> THEN <<>>
    ELSE LET label == Get(Head(list), "label")
             url   == Get(Head(list), "url")
         IN  (IF JTruthy(label) /\ JTruthy(url)
              THEN <<IndexOption(label.v, url.v)>> ELSE <<>>)
             \o OptionsOf(Tail(list))

\* A mutant of the promotion of a bare url: the label is left empty.
PromotedNoLabel(url) == IndexOption(<<>>, url)

\* IndexOption(label=url, url=url)
Promoted(url) == IndexOption(url, url)

\* for url in item.get("urls") or []: promote the truthy urls
RECURSIVE UrlsOf(_)
UrlsOf(list) ==
    IF list = <<>> THEN <<>>
    ELSE (IF JTruthy(Head(list)) THEN <<Promoted(Head(list).v)>> ELSE <<>>)
         \o UrlsOf(Tail(list))

\* value or []
OrEmpty(value) == IF JTruthy(value) THEN value.v ELSE <<>>

\* The options load_index makes of one item (index.py:199-212).
LoadOptions(item) ==
    IF "options" \in DOMAIN item THEN OptionsOf(OrEmpty(item["options"]))
    ELSE IF "urls" \in DOMAIN item THEN UrlsOf(OrEmpty(item["urls"]))
    ELSE LET url == Get(item, "url")
         IN  IF JTruthy(url) THEN <<Promoted(url.v)>> ELSE <<>>

\* One iteration of load_index's loop: the entries afterwards.
LoadItem(es, item) ==
    LET symbol == Get(item, "symbol")
    IN  IF ~JTruthy(symbol) THEN es
        ELSE IF LoadOptions(item) # <<>>
        THEN Append(es, IndexEntry(symbol.v, LoadOptions(item)))
        ELSE es

\* data.get("entries", [])
ItemsOf(data) == IF "entries" \in DOMAIN data THEN data["entries"] ELSE <<>>

\* write_index's merge of one entry into the dict `merged`.
RECURSIVE MergeOptions(_, _, _)
MergeOptions(d, symbol, options) ==
    IF options = <<>> THEN d
    ELSE MergeOptions(AddOption(d, symbol, Head(options)), symbol, Tail(options))

MergeEntry(d, entry) ==
    MergeOptions(SetDefault(d, entry.symbol, <<>>), entry.symbol, entry.options)

RECURSIVE MergeFrom(_, _)
MergeFrom(d, es) ==
    IF es = <<>> THEN d ELSE MergeFrom(MergeEntry(d, Head(es)), Tail(es))

\* {"label": option.label, "url": option.url}
JsonOption(option) == [label |-> JStr(option.label), url |-> JStr(option.url)]

\* A mutant of the stored entry: only its first option is written.
JsonEntryFirstOption(entry) ==
    [symbol |-> JStr(entry.symbol),
     options |-> JList(<<JsonOption(entry.options[1])>>)]

\* {"symbol": symbol, "options": [...]}
JsonEntry(entry) ==
    [symbol |-> JStr(entry.symbol),
     options |-> JList([i \in 1..Len(entry.options) |-> JsonOption(entry.options[i])])]

\* The payload write_index builds for `es` at the time `now`.
Payload(es, now) ==
    LET sorted == EntryList(MergeFrom(EmptyDict, es))
    IN  [index_version |-> INDEX_VERSION,
         index_time |-> now,
         base_url |-> BASE_URL,
         entries |-> [i \in 1..Len(sorted) |-> JsonEntry(sorted[i])]]

\* A mutant of the write: the entries of the file written over are kept
\* in front of the new ones.
WrittenOverKeepOld(old, payload) ==
    FileOf([payload EXCEPT !.entries =
                (IF old.exists THEN ItemsOf(old.data) ELSE <<>>) \o @])

\* path.write_text(json.dumps(payload)): the file holds the payload and
\* nothing of what it held before.
WrittenOver(old, payload) == FileOf(payload)

\* write_index(entries, path)
WriteIndex(es) ==
    /\ index_file' = WrittenOver(index_file, Payload(es, clock))
    /\ clock' = clock + 1

(***************************************************************************)
(* SpecLoad: load_index on a stored file, legacy encodings included        *)
(***************************************************************************)

\* The most items of a stored file.
MaxItems == 2

\* "w/cpp/v", "w/cpp/v2"
UrlV == Tail(DocRoot) \o <<"v">>

UrlV2 == Tail(DocRoot) \o <<"v", "2">>

\* The option objects of a stored item: two complete ones, one without
\* label, one with an empty url.
GoodV == JsonOption(IndexOption(<<"v">>, UrlV))

GoodV2 == JsonOption(IndexOption(<<"v", " ", "(", "2", ")">>, UrlV2))

NoLabel == [url |-> JStr(UrlV)]

EmptyUrl == [label |-> JStr(<<"v">>), url |-> JStr(<<>>)]

\* The options lists of a stored item.
StoredOptionLists ==
    { <<>>, <<GoodV>>, <<GoodV, GoodV2>>, <<GoodV2, GoodV>>,
      <<NoLabel, GoodV2>>, <<EmptyUrl>> }

\* The urls lists of a legacy item.
StoredUrlLists ==
    { <<>>, <<JStr(UrlV)>>, <<JStr(UrlV), JStr(UrlV2)>>,
      <<JStr(UrlV2), JStr(UrlV)>>, <<JStr(<<>>), JStr(UrlV2)>>, <<JStr(<<>>)>> }

\* What an item holds beside its symbol: an options list (or null), a
\* legacy urls list (or null), a legacy url, an options list together with
\* legacy fields, or nothing.
ItemBodies ==
    { [options |-> JList(l)] : l \in StoredOptionLists }
    \cup { [options |-> JNull] }
    \cup { [urls |-> JList(l)] : l \in StoredUrlLists }
    \cup { [urls |-> JNull] }
    \cup { [url |-> u] : u \in { JStr(UrlV), JStr(<<>>) } }
    \cup { [options |-> JList(l), urls |-> JList(<<JStr(UrlV2)>>), url |-> JStr(UrlV2)] :
             l \in { <<>>, <<GoodV>> } }
    \cup { [urls |-> JList(<<JStr(UrlV)>>), url |-> JStr(UrlV2)] }
    \cup { [index |-> JStr(<<"v">>)] }

\* The union of two JSON objects with disjoint keys.
Both(a, b) == [k \in DOMAIN a \cup DOMAIN b |-> IF k \in DOMAIN a THEN a[k] ELSE b[k]]

\* Items with the symbol "v" or "", some with the symbol "ab", and one
\* without symbol.
StoredItems ==
    { Both([symbol |-> s], body) :
        s \in { JStr(<<"v">>), JStr(<<>>) }, body \in ItemBodies }
    \cup { Both([symbol |-> JStr(<<"a", "b">>)], body) :
             body \in { [options |-> JList(<<GoodV>>)], [url |-> JStr(UrlV)] } }
    \cup { [urls |-> JList(<<JStr(UrlV)>>)] }

\* The files load_index is given: an object with an entries list, and one
\* without.
StoredFiles ==
    { FileOf([entries |-> items]) :
        items \in UNION { [1..n -> StoredItems] : n \in 0..MaxItems } }
    \cup { FileOf([index_version |-> INDEX_VERSION]) }

LoadInit ==
    /\ NormIdle /\ ParserIdle /\ LookupIdle /\ FilterIdle /\ BatchIdle
    /\ SelectIdle /\ TailIdle
    /\ WriteIdle /\ RebuildIdle
    /\ index_file \in StoredFiles
    /\ clock = 0
    /\ ld_i = 0
    /\ ld_entries = <<>>
    /\ ld_result = Unset
    /\ ld_pc = "loop"

\* What load_index leaves alone.
LoadFrame ==
    UNCHANGED <<index_file, clock, writeVars, rebuildVars, parserVars, notStore>>

\* for item in data.get("entries", []): ... (one iteration)
LoadStep ==
    /\ ld_pc = "loop"
    /\ ld_i < Len(ItemsOf(index_file.data))
    /\ ld_entries' = LoadItem(ld_entries, ItemsOf(index_file.data)[ld_i + 1])
    /\ ld_i' = ld_i + 1
    /\ UNCHANGED <<ld_result, ld_pc>>
    /\ LoadFrame

\* return entries
LoadReturn ==
    /\ ld_pc = "loop"
    /\ ld_i = Len(ItemsOf(index_file.data))
    /\ ld_result' = ld_entries
    /\ ld_pc' = "done"
    /\ UNCHANGED <<ld_i, ld_entries>>
    /\ LoadFrame

LoadNext == LoadStep \/ LoadReturn

SpecLoad == LoadInit /\ [][LoadNext]_vars


(***************************************************************************)
(* SpecRebuild: run_index (fetch, parse, write)                            *)
(***************************************************************************)

\* The most anchors of a fetched page.
MaxAnchors == 2

\* "/w/cpp/v", "x", "mwiki/x"
RebuildHrefs == { DocRoot \o <<"v">>, <<"x">>, Mwiki \o <<"x">> }

RebuildTexts == { <<"v">>, <<"a", "b">> }

\* The concatenation of a list of token lists.
RECURSIVE Concat(_)
Concat(lists) == IF lists = <<>> THEN <<>> ELSE Head(lists) \o Concat(Tail(lists))

\* The pages the server returns: lines <a href=h>t</a><br>.
FetchedPages ==
    { Concat(lines) :
        lines \in UNION { [1..n -> { AnchorMarkup(h, t) : h \in RebuildHrefs,
                                                         t \in RebuildTexts }] :
                          n \in 0..MaxAnchors } }

\* The index file before the run: none, or one an earlier run wrote.
EarlierFiles ==
    { NoFile }
    \cup { FileOf(Payload(StoredIndex(syms), 0)) :
             syms \in SUBSET { <<"v">>, StdPrefix \o <<"v">> } }

RebuildInit ==
    /\ NormIdle /\ LookupIdle /\ FilterIdle /\ BatchIdle
    /\ SelectIdle /\ TailIdle
    /\ LoadIdle /\ WriteIdle
    /\ current_href = Unset /\ current_text_parts = Unset
    /\ pending_symbol = Unset /\ pending_label_base = Unset
    /\ pending_url = Unset /\ pending_tail_parts = Unset
    /\ entries = Unset
    /\ p_pc = "idle"
    /\ p_result = Unset
    /\ p_ntok = 0
    /\ p_last = [kind |-> "none"]
    /\ p_script \in FetchedPages
    /\ index_file \in EarlierFiles
    /\ clock = 1
    /\ r_status \in BOOLEAN
    /\ r_old = index_file
    /\ r_pc = "start"
    /\ r_error = "none"
    /\ r_printed = Unset

\* What run_index leaves alone outside the parser and the index file.
RebuildFrame == UNCHANGED <<r_status, r_old, loadVars, writeVars, notStore>>

\* cli.py:52-54: show_index_info, which raises when there is no file
RebuildStatus ==
    /\ r_pc = "start"
    /\ r_status
    /\ IF index_file.exists
       THEN r_pc' = "done" /\ r_error' = "none"
       ELSE r_pc' = "error" /\ r_error' = "NotFound"
    /\ UNCHANGED <<index_file, clock, r_printed, parserVars>>
    /\ RebuildFrame

\* cli.py:55-56: fetch_symbol_index raises (urlopen, read or decode), or
\* returns the page, and parse_symbol_index makes its parser
RebuildFetch ==
    /\ r_pc = "start"
    /\ ~r_status
    /\ \E fetched \in BOOLEAN :
          IF fetched
          THEN /\ r_pc' = "parse" /\ r_error' = "none"
               /\ current_href' = None
               /\ current_text_parts' = <<>>
               /\ ClearPending
               /\ entries' = EmptyDict
               /\ p_pc' = "feed"
          ELSE /\ r_pc' = "error" /\ r_error' = "Transport"
               /\ UNCHANGED <<parserFields, p_pc>>
    /\ UNCHANGED <<index_file, clock, r_printed, p_result, p_ntok, p_last, p_script>>
    /\ RebuildFrame

\* cli.py:57-59: write_index(entries, output_path) and the count printed
RebuildWrite ==
    /\ r_pc = "parse"
    /\ p_pc = "closed"
    /\ WriteIndex(p_result)
    /\ r_printed' = Len(p_result)
    /\ r_pc' = "done"
    /\ UNCHANGED <<r_error, parserVars>>
    /\ RebuildFrame

RebuildNext ==
    \/ RebuildStatus
    \/ RebuildFetch
    \/ AnchorFeed
    \/ AnchorClose
    \/ RebuildWrite

SpecRebuild == RebuildInit /\ [][RebuildNext]_vars


(***************************************************************************)
(* SpecTail: _normalize_tail on a list of tail parts                       *)
(***************************************************************************)

\* The most parts of a tail.
MaxParts == 2

\* The parts handle_data appends: stripped, not empty.
\* "(", ")", "x", "( x", "x )", "(  x", "x  )", "x  x", "( )", "(x)", "x   x"
TailSegments ==
    { <<"(">>, <<")">>, <<"x">>, <<"(", " ", "x">>, <<"x", " ", ")">>,
      <<"(", " ", " ", "x">>, <<"x", " ", " ", ")">>, <<"x", " ", " ", "x">>,
      <<"(", " ", ")">>, <<"(", "x", ")">>, <<"x", " ", " ", " ", "x">> }

TailInit ==
    /\ NormIdle /\ ParserIdle /\ LookupIdle /\ FilterIdle /\ BatchIdle
    /\ SelectIdle /\ StoreIdle
    /\ t_parts \in UNION { [1..n -> TailSegments] : n \in 0..MaxParts }
    /\ t_result = Unset
    /\ t_pc = "start"

\* tail = _normalize_tail(parts)
TailNormalize ==
    /\ t_pc = "start"
    /\ t_result' = NormalizeTail(t_parts)
    /\ t_pc' = "done"
    /\ UNCHANGED <<t_parts, notTail>>

TailNext == TailNormalize

SpecTail == TailInit /\ [][TailNext]_vars


(***************************************************************************)
(* SpecScript: parse_symbol_index on every short markup                    *)
(***************************************************************************)

\* The longest markup, in tokens.
MaxScript == 5

\* <a href="/w/cpp/v">, <a> (no href), <br>, the texts "v" and "(", </a>
ScriptTokens ==
    { StartTok("a", DocRoot \o <<"v">>), StartTok("a", None),
      StartTok("br", None), DataTok(<<"v">>), DataTok(<<"(">>), EndTok("a") }

ScriptInit ==
    /\ NormIdle /\ LookupIdle /\ FilterIdle /\ BatchIdle /\ MoreIdle
    /\ ParserNew
    /\ p_pc = "feed"
    /\ p_result = Unset
    /\ p_ntok = 0
    /\ p_last = [kind |-> "none"]
    /\ p_script \in UNION { [1..n -> ScriptTokens] : n \in 0..MaxScript }

ScriptNext == AnchorFeed \/ AnchorClose

SpecScript == ScriptInit /\ [][ScriptNext]_vars


(***************************************************************************)
(* SpecRoundTrip: write_index, load_index of the file, write_index again   *)
(***************************************************************************)

\* The most entries written.
MaxWritten == 2

\* "v", "ab", "std::v"
WrittenSymbols == { <<"v">>, <<"a", "b">>, StdPrefix \o <<"v">> }

\* The option lists written: without duplicates, labels and urls not empty.
WrittenOptionLists ==
    { <<IndexOption(<<"v">>, UrlV)>>,
      <<IndexOption(<<"v">>, UrlV), IndexOption(<<"v", " ", "(", "2", ")">>, UrlV2)>>,
      <<IndexOption(<<"v", " ", "(", "2", ")">>, UrlV2), IndexOption(<<"v">>, UrlV)>>,
      <<IndexOption(UrlV, UrlV), IndexOption(<<"v">>, UrlV)>> }

\* The entry lists given to write_index: distinct symbols, in any order.
WrittenLists ==
    { l \in UNION { [1..n -> { IndexEntry(sym, options) :
                                 sym \in WrittenSymbols,
                                 options \in WrittenOptionLists }] :
                    n \in 0..MaxWritten } :
        \A i, j \in 1..Len(l) : i # j => l[i].symbol # l[j].symbol }

RoundInit ==
    /\ NormIdle /\ ParserIdle /\ LookupIdle /\ FilterIdle /\ BatchIdle
    /\ SelectIdle /\ TailIdle
    /\ LoadIdle /\ RebuildIdle
    /\ index_file = NoFile
    /\ clock = 1
    /\ w_entries \in WrittenLists
    /\ w_first = Unset
    /\ w_pc = "start"

\* What the writes leave alone.
RoundFrame == UNCHANGED <<w_entries, rebuildVars, parserVars, notStore>>

\* write_index(entries, path), and load_index(path) up to its loop
RoundWrite ==
    /\ w_pc = "start"
    /\ WriteIndex(w_entries)
    /\ w_first' = index_file'
    /\ w_pc' = "written"
    /\ ld_i' = 0
    /\ ld_entries' = <<>>
    /\ ld_pc' = "loop"
    /\ UNCHANGED ld_result
    /\ RoundFrame

\* write_index(load_index(path), path)
RoundWriteAgain ==
    /\ w_pc = "written"
    /\ ld_pc = "done"
    /\ WriteIndex(ld_result)
    /\ w_pc' = "rewritten"
    /\ UNCHANGED <<w_first, loadVars>>
    /\ RoundFrame

RoundNext == RoundWrite \/ LoadStep \/ LoadReturn \/ RoundWriteAgain

SpecRoundTrip == RoundInit /\ [][RoundNext]_vars


(***************************************************************************)
(* SpecResolve: run_search, which runs the batch resolver when a symbol is *)
(* given and the interactive resolver when none is                         *)
(***************************************************************************)

ResolveInit == BatchInit \/ SelectInit

ResolveNext == BatchNext \/ SelectNext

SpecResolve == ResolveInit /\ [][ResolveNext]_vars


(***************************************************************************)
(* Claims                                                                  *)
(***************************************************************************)

\* An href in the relative documentation-root form: "w/cpp/" and a path
\* that normalization has nothing to change in.
RelativeRootForm(h) ==
    /\ StartsWith(h, Tail(DocRoot))
    /\ Normpath(<<"/">> \o h) = <<"/">> \o h
    /\ ~Contains(h, <<"#">>)
    /\ ~Contains(h, <<"?">>)

\* C1: for the markup <a href=h>t</a><br> with h in the relative
\* documentation-root form and t a clean symbol, parse_symbol_index returns
\* exactly one entry, with symbol t and the single option (label t, url h).
C1_EndToEnd ==
    (/\ p_pc = "closed"
     /\ p_script # Unset
     /\ RelativeRootForm(p_script[1].href)
     /\ CleanSymbol(p_script[2].data) = p_script[2].data)
    => p_result = <<IndexEntry(p_script[2].data,
                      <<IndexOption(p_script[2].data, p_script[1].href)>>)>>

\* C2: whenever _normalize_href accepts an href, it accepts the path it
\* returned and returns it unchanged.
C2_Idempotent == n_pc = "twice" => n_twice = n_once

\* The returned entry list satisfies the index invariant.
IndexInvariant(result) ==
    /\ \A i \in 1..Len(result) :
          /\ result[i].symbol # <<>>
          /\ Len(result[i].options) >= 1
          /\ \A j \in 1..Len(result[i].options) :
                LET o == result[i].options[j]
                IN  /\ o.url # <<>>
                    /\ StartsWith(o.url, Tail(DocRoot))
                    /\ ~Contains(o.url, <<"#">>)
                    /\ ~Contains(o.url, <<":", "/", "/">>)
                    /\ \A k \in 1..Len(result[i].options) :
                          k # j => result[i].options[k] # o
    /\ \A i \in 1..(Len(result) - 1) :
          StrLess(result[i].symbol, result[i + 1].symbol)

\* C5: after any token sequence, the entries parse_symbol_index returns have
\* strictly ascending non-empty symbols, at least one option each, no option
\* twice in an entry, and urls under the documentation root ("w/cpp/...")
\* without fragment, scheme or host.
C5_IndexInvariant == p_pc = "closed" => IndexInvariant(p_result)

\* C5's case: a token sequence of two accepted anchors with different
\* symbols, and the two entries returned.
C5_Witness ==
    /\ p_pc = "closed"
    /\ p_ntok = MaxTokens
    /\ Len(p_result) = 2

\* The last token closed an anchor whose href normalizes to the symbol
\* index page's own path.
SelfClosed(last) ==
    /\ last.kind = "end"
    /\ last.tag = "a"
    /\ last.closed # None
    /\ NormalizeHref(last.closed) = SYMBOL_INDEX_PATH

NoPending ==
    /\ pending_symbol = None
    /\ pending_label_base = None
    /\ pending_url = None
    /\ pending_tail_parts = <<>>

C4_NoShadowing ==
    l_pc = "done" =>
        \A i \in 1..Len(l_entries) :
            lookup[l_entries[i].symbol] = l_entries[i].options

\* q's characters can be found in order in c: there are strictly
\* increasing positions of c that spell q.
RECURSIVE IsSubsequence(_, _)
IsSubsequence(q, c) ==
    IF q = <<>> THEN TRUE
    ELSE \E i \in 1..Len(c) : c[i] = Head(q) /\ IsSubsequence(Tail(q), From(c, i))

\* The candidates scored so far.
ScoredSoFar == { f_entries[i][1] : i \in 1..f_i }

\* C7: _match_score(c, "") is 0, and for a non-empty query it is None
\* exactly when the lower-cased query is no subsequence of the lower-cased
\* candidate: a candidate is in the scored list iff it was reached by the
\* loop and the query is a subsequence of it.
C7_MatchPredicate ==
    f_pc # "idle" =>
        /\ \A c \in ScoredSoFar :
              (\E k \in 1..Len(scored) : scored[k][2] = c)
                  <=> IsSubsequence(Lower(f_query), Lower(c))
        /\ f_query = <<>> => \A k \in 1..Len(scored) : scored[k][1] = 0

\* C7's case: a query that is a subsequence of one candidate without being
\* a substring of it, and no subsequence of another, both scored.
C7_Witness ==
    /\ f_pc = "done"
    /\ f_query = <<"x", "b">>
    /\ Len(f_entries) = 3
    /\ Len(scored) = 1
    /\ scored[1][2] = <<"x", "a", "b", "c">>

\* The integer score of a candidate that matches.
ScoreOf(c) == MatchScore(c, f_query)[1]

\* C8: _filter_entries returns exactly the candidates that match, ascending
\* by (score, candidate); and ["abc", "abd", "xabc"] in any order with
\* query "ab" gives ["abc", "abd", "xabc"], with scores -9, -9 and -7.
C8_RankingOrder ==
    f_pc = "done" =>
        /\ { f_result[i] : i \in 1..Len(f_result) }
               = { f_entries[i] : i \in { j \in 1..Len(f_entries) :
                       IsSubsequence(Lower(f_query), Lower(f_entries[j][1])) } }
        /\ \A i \in 1..(Len(f_result) - 1) :
              LET a == f_result[i][1]
                  b == f_result[i + 1][1]
              IN  \/ ScoreOf(a) < ScoreOf(b)
                  \/ ScoreOf(a) = ScoreOf(b) /\ StrLess(a, b)
        /\ ( /\ f_query = <<"a", "b">>
             /\ { f_entries[i][1] : i \in 1..Len(f_entries) }
                    = { <<"a", "b", "c">>, <<"a", "b", "d">>, <<"x", "a", "b", "c">> } )
           => /\ f_result = << CandidatePair(<<"a", "b", "c">>),
                               CandidatePair(<<"a", "b", "d">>),
                               CandidatePair(<<"x", "a", "b", "c">>) >>
              /\ \A k \in 1..3 :
                    scored[k][1] = IF scored[k][2] = <<"x", "a", "b", "c">>
                                   THEN -7 ELSE -9

\* C8's case: "abd", "xabc", "abc" given in an order that is not the
\* ranking's, with query "ab", and the ranking returned.
C8_Witness ==
    /\ f_pc = "done"
    /\ f_query = <<"a", "b">>
    /\ Len(f_entries) = 3
    /\ f_entries[1][1] = <<"x", "a", "b", "c">>
    /\ f_entries[2][1] = <<"a", "b", "d">>
    /\ f_entries[3][1] = <<"a", "b", "c">>
    /\ Len(f_result) = 3

\* C3: in a run with print output mode, every URL the batch resolver hands
\* out is printed; the opener is never invoked.
C3_PrintModeHonoured ==
    print_only => \A i \in 1..Len(b_out) : b_out[i].kind = "print"

\* The trimmed query of the run matches a lookup key with exactly one option.
SingleExactMatch ==
    /\ Strip(b_query) \in DOMAIN b_lookup
    /\ Len(b_lookup[Strip(b_query)]) = 1

\* C9: without a terminal, a run with a non-empty trimmed query reads no
\* input; it ends with the URL of the single option of the key the query
\* matches exactly, and in every other case with InteractiveRequired and no
\* URL opened or printed.
C9_NoTerminal ==
    (b_pc # "idle" /\ ~b_tty /\ Strip(b_query) # <<>>) =>
        /\ b_reads = 0
        /\ b_pc \in {"start", "done", "error"}
        /\ b_pc # "start" =>
              IF SingleExactMatch
              THEN /\ b_pc = "done"
                   /\ b_error = "none"
                   /\ Len(b_out) = 1
                   /\ b_out[1].url = Rehydrate(b_lookup[Strip(b_query)][1].url)
              ELSE /\ b_pc = "error"
                   /\ b_error = "InteractiveRequired"
                   /\ b_out = <<>>

\* C9's case: no terminal, a query without exact match for which a fuzzy
\* suggestion exists, and the run ended with InteractiveRequired.
C9_Witness ==
    /\ b_pc = "error"
    /\ ~b_tty
    /\ b_error = "InteractiveRequired"
    /\ Strip(b_query) \notin DOMAIN b_lookup
    /\ GetCloseMatches(Strip(b_query), DOMAIN b_lookup) # <<>>

\* The last line read was a quit: the end of input at any of the three
\* prompts, or a line that prompt_for_choice reads as "q" or the line "q".
LastReadQuits ==
    /\ b_last.at \in {"choice_suggested", "choice_nomatch", "input"}
    /\ \/ b_last.line = EOF
       \/ Lower(Strip(b_last.line)) = <<"q">>

\* C10: at every prompt of the batch resolver (open/search again/quit,
\* search again/quit, and the re-prompt for a new query), quit or the end
\* of input ends the run with no URL opened or printed and no error.
C10_CancelIsNoAction ==
    LastReadQuits => (b_pc = "done" /\ b_error = "none" /\ b_out = <<>>)


\* C11: in both selection loops, escape, or Enter while no row is visible,
\* ends the selection with no result: the run is over and no URL was opened
\* or printed.
C11_CancelUniform ==
    (s_last.key = "esc" \/ (s_last.key = "enter" /\ s_last.rows = 0))
        => (s_pc = "done" /\ s_out = <<>>)

\* C12: at every key read of a selection loop the cursor satisfies
\* 0 <= selected <= max(0, visible rows - 1).
C12_CursorClamped ==
    s_pc \in {"symbols", "options"}
        => /\ 0 <= selected
           /\ selected <= (IF Len(VisibleNow) - 1 > 0 THEN Len(VisibleNow) - 1 ELSE 0)


\* A stored string that is there and not empty.
NonEmptyString(d, key) == key \in DOMAIN d /\ d[key].t = "str" /\ d[key].v # <<>>

\* The list a field of an item holds: empty when the field is null.
ListIn(item, key) == IF item[key].t = "list" THEN item[key].v ELSE <<>>

\* The option list the claim gives an item: the complete options of its
\* options list when it has one; otherwise one option per non-empty url of
\* its urls list, label = url; otherwise one option for its url field.
ClaimedOptions(item) ==
    IF "options" \in DOMAIN item
    THEN LET complete == SelectSeq(ListIn(item, "options"),
                                   LAMBDA o : NonEmptyString(o, "label")
                                              /\ NonEmptyString(o, "url"))
         IN  [i \in 1..Len(complete) |->
                 [label |-> complete[i].label.v, url |-> complete[i].url.v]]
    ELSE IF "urls" \in DOMAIN item
    THEN LET urls == SelectSeq(ListIn(item, "urls"), LAMBDA u : u.v # <<>>)
         IN  [i \in 1..Len(urls) |-> [label |-> urls[i].v, url |-> urls[i].v]]
    ELSE IF NonEmptyString(item, "url")
    THEN <<[label |-> item.url.v, url |-> item.url.v]>>
    ELSE <<>>

\* The index the claim gives a file: its items that have a non-empty symbol
\* and a non-empty claimed option list, in file order.
ClaimedIndex(items) ==
    LET kept == SelectSeq(items, LAMBDA item : NonEmptyString(item, "symbol")
                                               /\ ClaimedOptions(item) # <<>>)
    IN  [i \in 1..Len(kept) |->
            [symbol |-> kept[i].symbol.v, options |-> ClaimedOptions(kept[i])]]

\* C13: load_index returns, for every stored entry with a non-empty symbol,
\* its options from the current schema, else one option per non-empty
\* legacy url with label = url, else one option for a single url field;
\* entries left without options do not appear.
C13_LegacyLoad ==
    ld_pc = "done" => ld_result = ClaimedIndex(ItemsOf(index_file.data))

\* C13 witness: a file of two legacy items, a urls list of two urls and a
\* single url, has been loaded as two entries.
C13_Witness ==
    /\ ld_pc = "done"
    /\ Len(ItemsOf(index_file.data)) = 2
    /\ DOMAIN ItemsOf(index_file.data)[1] = {"symbol", "urls"}
    /\ DOMAIN ItemsOf(index_file.data)[2] = {"symbol", "url"}
    /\ Len(ld_result) = 2
    /\ Len(ld_result[1].options) = 2
    /\ ld_result[2].options = <<[label |-> UrlV, url |-> UrlV]>>


\* The symbols of the items of an index file.
StoredSymbolsOf(file) ==
    IF file.exists
    THEN { ItemsOf(file.data)[i].symbol.v : i \in 1..Len(ItemsOf(file.data)) }
    ELSE {}

\* C14: until the rebuild has succeeded (while it fetches and parses, and
\* when the fetch has failed) the index file is as it was before the run;
\* once it has succeeded the file holds exactly the entries extracted from
\* the fetched page, none carried over.
C14_NoPartialWrite ==
    /\ (r_pc \in {"start", "parse", "error"} \/ r_status) => index_file = r_old
    /\ (r_pc = "done" /\ ~r_status) =>
          /\ index_file.exists
          /\ index_file.data.entries =
                 [i \in 1..Len(p_result) |-> JsonEntry(p_result[i])]
          /\ StoredSymbolsOf(index_file) =
                 { p_result[i].symbol : i \in 1..Len(p_result) }

\* C14 witness: a rebuild has replaced a file that held a symbol the new
\* page does not have, by a file that is not empty.
C14_Witness ==
    /\ r_pc = "done" /\ ~r_status
    /\ StoredSymbolsOf(r_old) \ StoredSymbolsOf(index_file) # {}
    /\ StoredSymbolsOf(index_file) # {}


\* C15: the string _normalize_tail returns holds no two consecutive
\* spaces, no "( " and no " )".
C15_TailNormalized ==
    t_pc = "done" =>
        /\ ~Contains(t_result, <<" ", " ">>)
        /\ ~Contains(t_result, <<"(", " ">>)
        /\ ~Contains(t_result, <<" ", ")">>)


\* The tokens fed so far.
History == SubSeq(p_script, 1, p_ntok)

\* The position in h of the start tag of the anchor that is open after h,
\* 0 when none is: an <a> with an href opens one, </a> closes it.
RECURSIVE OpenAnchor(_)
OpenAnchor(h) ==
    IF h = <<>> THEN 0
    ELSE LET tok == h[Len(h)]
         IN  IF tok.kind = "start" /\ tok.tag = "a" /\ Truthy(tok.href) THEN Len(h)
             ELSE IF tok.kind = "end" /\ tok.tag = "a" THEN 0
             ELSE OpenAnchor(SubSeq(h, 1, Len(h) - 1))

\* The position in h of the last </a> that closed an open anchor, 0 when
\* there is none.
RECURSIVE LastClose(_)
LastClose(h) ==
    IF h = <<>> THEN 0
    ELSE LET before == SubSeq(h, 1, Len(h) - 1)
         IN  IF h[Len(h)].kind = "end" /\ h[Len(h)].tag = "a" /\ OpenAnchor(before) # 0
             THEN Len(h)
             ELSE LastClose(before)

\* The non-empty trimmed texts among the tokens h[from..to].
RECURSIVE TextsIn(_, _, _)
TextsIn(h, from, to) ==
    IF from > to THEN <<>>
    ELSE (IF h[from].kind = "data" /\ Strip(h[from].data) # <<>>
          THEN <<Strip(h[from].data)>> ELSE <<>>)
         \o TextsIn(h, from + 1, to)

\* The anchor closed at position k of h: its href and its inner text.
ClosedHref(h, k) == h[OpenAnchor(SubSeq(h, 1, k - 1))].href

ClosedText(h, k) ==
    Strip(Join(TextsIn(h, OpenAnchor(SubSeq(h, 1, k - 1)) + 1, k - 1), <<>>))

\* A line break or an anchor opening.
Separates(tok) == tok.kind = "start" /\ tok.tag \in {"a", "br"}

\* After h a closed anchor still takes tail text: the last anchor closed
\* was accepted, and neither a line break nor an anchor opening followed.
TakesTail(h) ==
    LET k == LastClose(h)
    IN  /\ k # 0
        /\ ~Discards(CleanSymbol(ClosedText(h, k)), NormalizeHref(ClosedHref(h, k)))
        /\ \A i \in (k + 1)..Len(h) : ~Separates(h[i])

\* The label of the anchor that takes tail text after h, with the tail
\* texts seen since it closed.
TailedLabel(h) ==
    LET tails == TextsIn(h, LastClose(h) + 1, Len(h))
    IN  ClosedText(h, LastClose(h))
        \o (IF tails = <<>> THEN <<>> ELSE <<" ">> \o NormalizeTail(tails))

\* C16: the tail parts held are exactly the free-standing texts seen since
\* the last accepted anchor closed, provided no line break and no anchor
\* opening came since, and none otherwise; and when a line break, an anchor
\* opening or the end of input then comes, the option of that anchor gets
\* the label of the anchor followed by those texts; no other step changes
\* an entry.
C16_TailAttachment ==
    /\ [](p_pc = "feed" =>
            /\ (pending_url # None) = TakesTail(History)
            /\ pending_tail_parts =
                   (IF TakesTail(History)
                    THEN TextsIn(History, LastClose(History) + 1, p_ntok)
                    ELSE <<>>))
    /\ [][(/\ p_pc = "feed"
           /\ TakesTail(History)
           /\ p_pc' = "closed" \/ (p_ntok' = p_ntok + 1 /\ Separates(p_script[p_ntok'])))
          => LET symbol == CleanSymbol(ClosedText(History, LastClose(History)))
                 url    == NormalizeHref(ClosedHref(History, LastClose(History)))
             IN  /\ symbol \in DOMAIN entries'
                 /\ \E i \in 1..Len(entries'[symbol]) :
                       entries'[symbol][i] = IndexOption(TailedLabel(History), url)]_vars
    /\ [][(p_pc = "feed" /\ entries' # entries)
          => /\ TakesTail(History)
             /\ p_pc' = "closed" \/ Separates(p_script[p_ntok'])]_vars

\* C16 witness: <a href="/w/cpp/v">v</a>( then end of input: the text "("
\* was seen after the anchor closed and is in the option's label, "v (".
C16_Witness ==
    /\ p_pc = "closed"
    /\ p_ntok = 4
    /\ p_script[4] = DataTok(<<"(">>)
    /\ TakesTail(p_script)
    /\ p_result = <<IndexEntry(<<"v">>, <<IndexOption(<<"v", " ", "(">>, Tail(DocRoot) \o <<"v">>)>>)>>


\* The pending fields are all set, or all cleared.
PendingSet ==
    Truthy(pending_symbol) /\ Truthy(pending_label_base) /\ Truthy(pending_url)

PendingCleared ==
    /\ pending_symbol = None /\ pending_label_base = None
    /\ pending_url = None /\ pending_tail_parts = <<>>

\* The number of options of all entries of a dict.
RECURSIVE CountOptions(_, _)
CountOptions(d, keys) ==
    IF keys = {} THEN 0
    ELSE LET k == CHOOSE x \in keys : TRUE
         IN  Len(d[k]) + CountOptions(d, keys \ {k})

OptionCount(d) == CountOptions(d, DOMAIN d)

\* Every option of d is an option of e, at the same place.
KeepsOptions(d, e) ==
    \A k \in DOMAIN d :
        /\ k \in DOMAIN e
        /\ Len(d[k]) <= Len(e[k])
        /\ SubSeq(e[k], 1, Len(d[k])) = d[k]

\* C17: an open anchor and a pending triple never coexist, and the pending
\* fields are all set or all cleared; a close tag changes no entry, and
\* every step adds at most one option and changes nothing else.
C17_ParserStateInvariant ==
    /\ [](p_pc \in {"feed", "closed"} =>
            /\ PendingSet \/ PendingCleared
            /\ current_href # None => PendingCleared)
    /\ [][/\ p_last'.kind = "end" => entries' = entries
          /\ KeepsOptions(entries, entries')
          /\ OptionCount(entries') \in {OptionCount(entries), OptionCount(entries) + 1}]_vars

\* C17 witness: an anchor is open after an earlier one was finalized, and
\* the scanner has held a pending triple with tail text before.
C17_Witness ==
    /\ p_pc = "feed"
    /\ current_href # None
    /\ current_text_parts # <<>>
    /\ OptionCount(entries) = 1
    /\ \E k \in DOMAIN entries : Contains(entries[k][1].label, <<" ">>)


\* A JSON object of an index file, its timestamp put aside.
Untimed(data) == [data EXCEPT !.index_time = 0]

\* C18: load_index of the file write_index wrote returns the entries
\* written, each with its options in their order, sorted by symbol; and
\* writing the loaded entries again gives the same file but for its
\* timestamp.
C18_RoundTrip ==
    /\ ld_pc = "done" =>
          /\ Len(ld_result) = Len(w_entries)
          /\ \A i \in 1..Len(w_entries) :
                \E j \in 1..Len(ld_result) : ld_result[j] = w_entries[i]
          /\ \A i \in 1..(Len(ld_result) - 1) :
                StrLess(ld_result[i].symbol, ld_result[i + 1].symbol)
    /\ w_pc = "rewritten" => Untimed(index_file.data) = Untimed(w_first.data)

\* C18 witness: two entries given out of order, one with two options, have
\* been written, loaded and written again, at a later time.
C18_Witness ==
    /\ w_pc = "rewritten"
    /\ Len(w_entries) = 2
    /\ StrLess(w_entries[2].symbol, w_entries[1].symbol)
    /\ Len(w_entries[1].options) = 2
    /\ ld_result = <<w_entries[2], w_entries[1]>>
    /\ index_file.data.index_time # w_first.data.index_time


\* The absolute URLs of the options the lookup table holds for a key.
UrlsOfKey(key) ==
    IF key \in DOMAIN b_lookup
    THEN { Rehydrate(b_lookup[key][i].url) : i \in 1..Len(b_lookup[key]) }
    ELSE {}

\* The absolute URLs of the options of the entry selected in the list.
UrlsOfSelection ==
    UNION { { Rehydrate(s_entries[i].options[j].url) :
                j \in 1..Len(s_entries[i].options) } :
            i \in { k \in 1..Len(s_entries) : s_entries[k].symbol = s_symbol } }

\* The run was cancelled by its last read: quit or the end of input at a
\* prompt, no option chosen in the option list, or escape.
Cancelled ==
    \/ /\ b_last.at \in {"choice_suggested", "choice_nomatch"}
       /\ PromptForChoice(b_last.line) = <<"q">>
    \/ b_last.at = "input" /\ b_last.line = EOF
    \/ b_last.at = "select" /\ b_last.line = None
    \/ s_last.key = "esc"

\* C19: a run of the batch or of the interactive resolver hands out at most
\* one URL, is over once it has, and reads nothing more; the URL is that of
\* an option of the symbol looked up or suggested last, or of the entry
\* selected; a cancelled run hands out none.
C19_SingleAction ==
    /\ [](/\ Len(b_out) <= 1 /\ Len(s_out) <= 1
          /\ b_out # <<>> =>
                /\ b_pc = "done" /\ b_error = "none"
                /\ b_out[1].url \in UrlsOfKey(IF b_symbol \in DOMAIN b_lookup
                                              THEN b_symbol ELSE b_suggestion)
          /\ s_out # <<>> =>
                /\ s_pc = "done" /\ s_error = "none"
                /\ s_out[1].url \in UrlsOfSelection
          /\ Cancelled => (b_out = <<>> /\ s_out = <<>>))
    /\ [][b_out = <<>> /\ s_out = <<>>]_vars

\* C19 witness: the interactive resolver has printed the URL of an option
\* chosen in the option list of the selected symbol.
C19_Witness ==
    /\ s_pc = "done"
    /\ s_last.at = "options"
    /\ s_last.key = "enter"
    /\ Len(s_out) = 1
    /\ s_out[1].kind = "print"

=============================================================================
